---- MODULE Spec2Model ----
(***************************************************************************)
(* Model of the BeTransparent front-end:                                   *)
(*   - the MermaidDiagram component (src/components/MermaidDiagram.tsx):   *)
(*     one effect per value of the `code` prop, each owning a `cancelled`  *)
(*     flag and an asynchronous renderDiagram() invocation;                *)
(*   - the v1 page (src/app/v1/page.tsx): prompt form, held result and     *)
(*     the derived flow / screen selections.                               *)
(* Strings that the code trims are sequences of one-character strings, so  *)
(* that String.prototype.trim is computed and not assumed.                 *)
(***************************************************************************)
EXTENDS Integers, Sequences, FiniteSets, TLC

\* ------------------------------------------------------------------------
\* Bounds
\* ------------------------------------------------------------------------
MaxTextLen == 2      \* longest text typed into a prop or the prompt
MaxRuns == 2         \* effect invocations of one MermaidDiagram instance
MaxSubmits == 3      \* submit events of one page visit

\* ------------------------------------------------------------------------
\* Text
\* ------------------------------------------------------------------------
Chars == {" ", "a"}

RECURSIVE TextsUpTo(_)
TextsUpTo(n) ==
    IF n = 0 THEN {<<>>}
    ELSE LET shorter == TextsUpTo(n - 1)
         IN  shorter \cup {Append(t, c) : t \in {u \in shorter : Len(u) = n - 1}, c \in Chars}

Texts == TextsUpTo(MaxTextLen)

IsWhitespace(c) == c = " "

RECURSIVE TrimStart(_)
TrimStart(s) ==
    IF s # <<>> /\ IsWhitespace(Head(s)) THEN TrimStart(Tail(s)) ELSE s

RECURSIVE TrimEnd(_)
TrimEnd(s) ==
    IF s # <<>> /\ IsWhitespace(s[Len(s)]) THEN TrimEnd(SubSeq(s, 1, Len(s) - 1)) ELSE s

\* String.prototype.trim
Trim(s) == TrimEnd(TrimStart(s))

\* ------------------------------------------------------------------------
\* MermaidDiagram
\* ------------------------------------------------------------------------
VARIABLES
    life,          \* "new" before the first commit, then "mounted", then "unmounted"
    code,          \* the `code` prop of the last commit
    containerRef,  \* TRUE iff containerRef.current is the container element
    container,     \* the container element: [html, of, styled, bound, by]
    runs           \* runs[i]: the closure of the i-th effect [trimmed, cancelled, pc, outcome]

diagramVars == <<life, code, containerRef, container, runs>>

\* State of the v1 page.
VARIABLES
    prompt,          \* text of the textarea
    yanaResult,      \* the held result, or NullObj
    responseStatus,  \* 'not sent' | 'sent' | 'received' | 'error'
    errorMessage,    \* the message shown under the textarea, or Null
    activeFlowSlug,  \* flow_slug of the selected tab, or Null
    activeScreenId,  \* screen_id of the selected card, or Null
    inFlight,        \* requests handed to fetch() and not settled yet
    nSubmits,        \* calls of submitPrompt
    nAccepted,       \* calls of submitPrompt that passed the blank check
    nRequests        \* calls of fetch()

pageVars == <<prompt, yanaResult, responseStatus, errorMessage, activeFlowSlug,
              activeScreenId, inFlight, nSubmits, nAccepted, nRequests>>

\* The environment both pages read when their module is loaded, and the page
\* (route) the visit is to.
VARIABLES
    env,             \* process.env: [API_HOST, NEXT_PUBLIC_API_HOST, USERNAME, ...]
    route            \* "/v1" (src/app/v1/page.tsx) or "/" (src/app/page.tsx)

\* State of the root page (the first Home of src/app/page.tsx).
VARIABLES
    rootPrompt,          \* text of the input
    rootResponseMessage, \* the response text shown below the form
    rootResponseStatus,  \* 'not sent' | 'sent' | 'received' | 'error'
    rootInFlight,        \* requests handed to fetch() and not settled yet
    rootSubmits          \* calls of submitPrompt

rootVars == <<env, route, rootPrompt, rootResponseMessage, rootResponseStatus,
              rootInFlight, rootSubmits>>

vars == <<diagramVars, pageVars, rootVars>>

\* The effect body and the cleanup write as 0, renderDiagram of the i-th effect as i.
EffectWriter == 0

\* innerHTML = ''
EmptyContainer(by) ==
    [html |-> "empty", of |-> <<>>, styled |-> FALSE, bound |-> FALSE, by |-> by]

\* innerHTML = svg, the markup mermaid.render produced for `trimmed`
SvgMarkup(trimmed, by) ==
    [html |-> "svg", of |-> trimmed, styled |-> FALSE, bound |-> FALSE, by |-> by]

\* innerHTML = '<div ...>Failed to render Mermaid diagram.</div>'
FailureNotice(by) ==
    [html |-> "notice", of |-> <<>>, styled |-> FALSE, bound |-> FALSE, by |-> by]

RunIds == 1..Len(runs)

\* The run of the effect that belongs to the last commit.
CurrentRun == Len(runs)

NewRun(c, pc, outcome) ==
    [trimmed |-> Trim(c), cancelled |-> FALSE, pc |-> pc, outcome |-> outcome]

\* `if (!trimmed)` of renderDiagram
IsBlankNoTrim(c) == c = <<>>
IsBlank(c) == Trim(c) = <<>>

\* renderDiagram() of run id from its call up to its first await (or its return).
StartRunSkipsRender(c, ref) == NewRun(c, "done", "noContainer")
StartRun(c, ref) ==
    IF ~ref THEN NewRun(c, "done", "noContainer")
    ELSE IF IsBlank(c) THEN NewRun(c, "done", "blank")
    ELSE NewRun(c, "awaitImport", "pending")

StartContainer(c, ref, cont, id) ==
    IF ref /\ IsBlank(c) THEN EmptyContainer(id) ELSE cont

\* The effect body before renderDiagram(): clear the container.
ClearContainer(ref, cont) == IF ref THEN EmptyContainer(EffectWriter) ELSE cont

\* The effect's cleanup: set the flag (and clear the container, ClearContainer).
CleanupNoCancel(run) == run
Cleanup(run) == [run EXCEPT !.cancelled = TRUE]

\* First commit of the component with prop c, followed by its effect.
Mount(c) ==
    /\ life = "new"
    /\ life' = "mounted"
    /\ code' = c
    /\ containerRef' = TRUE
    /\ runs' = <<StartRun(c, TRUE)>>
    /\ container' = StartContainer(c, TRUE, ClearContainer(TRUE, container), 1)
    /\ UNCHANGED <<pageVars, rootVars>>

\* A commit with a different prop: cleanup of the previous effect, then the new effect.
ChangeCode(c) ==
    /\ life = "mounted"
    /\ c # code
    /\ Len(runs) < MaxRuns
    /\ code' = c
    /\ runs' = Append([runs EXCEPT ![CurrentRun] = Cleanup(@)], StartRun(c, containerRef))
    /\ container' = StartContainer(c, containerRef,
                        ClearContainer(containerRef, ClearContainer(containerRef, container)),
                        Len(runs) + 1)
    /\ UNCHANGED <<life, containerRef, pageVars, rootVars>>

\* The component leaves the tree. React detaches the ref and runs the effect's
\* cleanup; whether the ref is still attached when the cleanup runs depends on
\* the React version (passive cleanups run after the ref is detached since
\* React 17, before it in earlier versions), so both orders are modelled.
Unmount(refAtCleanup) ==
    /\ life = "mounted"
    /\ life' = "unmounted"
    /\ containerRef' = FALSE
    /\ runs' = [runs EXCEPT ![CurrentRun] = Cleanup(@)]
    /\ container' = ClearContainer(refAtCleanup, container)
    /\ UNCHANGED <<code, pageVars, rootVars>>

\* The catch block of renderDiagram: what it leaves in the container.
CatchRethrows(run, ref, cont, id) == cont
CatchIgnoresCancelled(run, ref, cont, id) == IF ref THEN FailureNotice(id) ELSE cont
CatchRenderError(run, ref, cont, id) ==
    IF ~run.cancelled /\ ref THEN FailureNotice(id) ELSE cont

\* How a run that reached the catch block ends: the async function returns,
\* with the notice written ("failed") or not ("failedDiscarded").
CatchOutcome(run, ref) ==
    IF ~run.cancelled /\ ref THEN "failed" ELSE "failedDiscarded"

\* import('mermaid') resolved, mermaid.initialize returned and mermaid.render
\* was called and returned its promise. The flag is not read here.
ImportResolves(i) ==
    /\ i \in RunIds
    /\ runs[i].pc = "awaitImport"
    /\ runs' = [runs EXCEPT ![i].pc = "awaitRender"]
    /\ UNCHANGED <<life, code, containerRef, container, pageVars, rootVars>>

\* The engine threw: import('mermaid') rejected, mermaid.initialize threw or
\* mermaid.render threw synchronously (step "load"), or the promise of
\* mermaid.render rejected (step "render").
EngineThrows(i, step) ==
    /\ i \in RunIds
    /\ \/ step = "load" /\ runs[i].pc = "awaitImport"
       \/ step = "render" /\ runs[i].pc = "awaitRender"
    /\ container' = CatchRenderError(runs[i], containerRef, container, i)
    /\ runs' = [runs EXCEPT ![i].pc = "done",
                            ![i].outcome = CatchOutcome(runs[i], containerRef)]
    /\ UNCHANGED <<life, code, containerRef, pageVars, rootVars>>

\* What the continuation after `await mermaid.render(...)` leaves in the
\* container: the markup, normalised when it holds an <svg> element, with the
\* bindings attached when the engine returned bindFunctions; the failure
\* notice when bindFunctions throws.
ApplyRenderUnguarded(run, ref, cont, id, hasSvgEl, bind) ==
    [SvgMarkup(run.trimmed, id) EXCEPT !.styled = hasSvgEl, !.bound = (bind = "binds")]
ApplyRenderBindsDiscarded(run, ref, cont, id, hasSvgEl, bind) ==
    IF run.cancelled \/ ~ref THEN [cont EXCEPT !.bound = (bind = "binds")]
    ELSE IF bind = "throws" THEN CatchRenderError(run, ref, cont, id)
    ELSE [SvgMarkup(run.trimmed, id) EXCEPT !.styled = hasSvgEl, !.bound = (bind = "binds")]
ApplyRender(run, ref, cont, id, hasSvgEl, bind) ==
    IF run.cancelled \/ ~ref THEN cont
    ELSE IF bind = "throws" THEN CatchRenderError(run, ref, cont, id)
    ELSE [SvgMarkup(run.trimmed, id) EXCEPT !.styled = hasSvgEl, !.bound = (bind = "binds")]

ApplyOutcome(run, ref, bind) ==
    IF run.cancelled \/ ~ref THEN "discarded"
    ELSE IF bind = "throws" THEN "bindFailed"
    ELSE "rendered"

\* The promise of mermaid.render resolved with { svg, bindFunctions }.
RenderResolves(i, hasSvgEl, bind) ==
    /\ i \in RunIds
    /\ runs[i].pc = "awaitRender"
    /\ container' = ApplyRender(runs[i], containerRef, container, i, hasSvgEl, bind)
    /\ runs' = [runs EXCEPT ![i].pc = "done",
                            ![i].outcome = ApplyOutcome(runs[i], containerRef, bind)]
    /\ UNCHANGED <<life, code, containerRef, pageVars, rootVars>>

\* bindFunctions of the render result: absent, present, or present and throwing.
BindResults == {"none", "binds", "throws"}

DiagramInit ==
    /\ life = "new"
    /\ code = <<>>
    /\ containerRef = FALSE
    /\ container = EmptyContainer(EffectWriter)
    /\ runs = <<>>

DiagramNext ==
    \/ \E c \in Texts : Mount(c)
    \/ \E c \in Texts : ChangeCode(c)
    \/ \E refAtCleanup \in BOOLEAN : Unmount(refAtCleanup)
    \/ \E i \in 1..MaxRuns : ImportResolves(i)
    \/ \E i \in 1..MaxRuns, step \in {"load", "render"} : EngineThrows(i, step)
    \/ \E i \in 1..MaxRuns, hasSvgEl \in BOOLEAN, bind \in BindResults :
           RenderResolves(i, hasSvgEl, bind)

AllRunsDone == \A i \in RunIds : runs[i].pc = "done"

\* C1: after the input changed while a render was pending, the container never
\* holds output written by a superseded run, and once every run has resolved
\* it holds the render of the current input.
C1_LatestRenderWins ==
    life = "mounted" =>
        /\ container.by \in {EffectWriter, CurrentRun}
        /\ container.html = "svg" => container.of = Trim(code)
        /\ (AllRunsDone /\ runs[CurrentRun].outcome = "rendered") =>
               (container.html = "svg" /\ container.of = Trim(code))

\* Both orders of resolution end in such a state: the superseded run was
\* discarded and the current one rendered.
C1_Witness ==
    /\ life = "mounted"
    /\ Len(runs) = 2
    /\ runs[1].trimmed # runs[2].trimmed
    /\ runs[1].outcome = "discarded"
    /\ runs[2].outcome = "rendered"
    /\ container.html = "svg"

\* C2: once the component is unmounted, no step changes the container.
C2_NoWriteAfterUnmount ==
    [][life = "unmounted" => container' = container]_vars

\* The run that was pending at the unmount has resolved (or thrown) after it.
C2_Witness ==
    /\ life = "unmounted"
    /\ runs[CurrentRun].outcome \in {"discarded", "failedDiscarded"}

\* C3: when the engine threw for the current input of a mounted component, the
\* run ends in the catch block with the failure notice in the container, and
\* no run ends with a rejected promise.
C3_FailureNoticeShown ==
    /\ \A i \in RunIds : runs[i].outcome # "rejected"
    /\ \A i \in RunIds : runs[i].outcome = "failedDiscarded" => runs[i].cancelled
    /\ (life = "mounted" /\ runs # <<>> /\ runs[CurrentRun].outcome = "failed") =>
           container = FailureNotice(CurrentRun)

C3_Witness ==
    /\ life = "mounted"
    /\ Len(runs) >= 2
    /\ runs[CurrentRun].outcome = "failed"
    /\ container.html = "notice"

\* C4: a run for a blank input never reaches the engine, and while the input
\* of a mounted component is blank the container is empty.
C4_BlankInputEmpty ==
    /\ \A i \in RunIds : runs[i].trimmed = <<>> =>
           (runs[i].pc = "done" /\ runs[i].outcome = "blank")
    /\ (life = "mounted" /\ Trim(code) = <<>>) => container.html = "empty"

\* A whitespace-only input replaces one whose render was displayed.
C4_Witness ==
    /\ life = "mounted"
    /\ Len(runs) >= 2
    /\ runs[1].outcome = "rendered"
    /\ code # <<>>
    /\ Trim(code) = <<>>
    /\ container.html = "empty"

\* The lifecycle state of the component as its specification names it.
LifecycleState ==
    IF life # "mounted" \/ runs = <<>> THEN "idle"
    ELSE IF runs[CurrentRun].pc # "done" THEN "rendering"
    ELSE IF runs[CurrentRun].outcome = "rendered" THEN "rendered"
    ELSE IF runs[CurrentRun].outcome \in {"failed", "bindFailed"} THEN "failed"
    ELSE "idle"

\* A step that commits a different input, and one that removes the component.
InputChangeStep == life = "mounted" /\ life' = "mounted" /\ code' # code
TeardownStep == life = "mounted" /\ life' = "unmounted"

\* C15: the lifecycle is idle -> rendering -> (rendered | failed). Rendering
\* is entered only on a non-empty input, by the cleared effect of a commit;
\* rendered and failed are entered only from rendering, for the input of the
\* last commit; an input change leaves the container empty or, for a new
\* non-empty input, in rendering with the container empty; a teardown leaves
\* the component idle with the container empty; and whatever resolves for a
\* superseded or torn-down run afterwards is discarded.
C15_LifecycleStateMachine ==
    [][/\ (LifecycleState' = "rendering" /\ LifecycleState # "rendering") =>
              /\ Trim(code') # <<>>
              /\ container'.html = "empty"
       /\ (LifecycleState' \in {"rendered", "failed"} /\ LifecycleState' # LifecycleState) =>
              /\ LifecycleState = "rendering"
              /\ code' = code
              /\ container'.by = CurrentRun
       /\ InputChangeStep =>
              /\ LifecycleState' \in {"idle", "rendering"}
              /\ container'.html = "empty"
       /\ TeardownStep =>
              /\ LifecycleState' = "idle"
              /\ container'.html = "empty"
       /\ \A i \in RunIds :
              (runs[i].cancelled /\ runs[i].pc # "done" /\ runs'[i].pc = "done") =>
                  /\ runs'[i].outcome \in {"discarded", "failedDiscarded"}
                  /\ container' = container]_vars

\* C16: at most one run that has not returned has its flag unset, and it is
\* the run of the last commit of a mounted component; a step in which a run
\* writes the container is a step of that run, with its flag unset.
C16_SingleLiveRun ==
    /\ [](\A i \in RunIds :
             (runs[i].pc # "done" /\ ~runs[i].cancelled) => (i = CurrentRun /\ life = "mounted"))
    /\ [][(container' # container /\ container'.by # EffectWriter) =>
             /\ container'.by = Len(runs')
             /\ ~runs'[Len(runs')].cancelled
             /\ life' = "mounted"]_vars

\* A superseded run is still pending, cancelled, while the run of the current
\* input has written its render.
C16_Witness ==
    /\ life = "mounted"
    /\ Len(runs) = 2
    /\ runs[1].pc # "done"
    /\ runs[1].cancelled
    /\ runs[2].outcome = "rendered"
    /\ container.by = 2

\* C17: a step that changes the input or tears the component down marks the
\* run that was current as cancelled and leaves the container empty.
C17_ChangeCancelsAndClears ==
    [][(InputChangeStep \/ TeardownStep) =>
          /\ runs'[CurrentRun].cancelled
          /\ container'.html = "empty"]_vars

\* The rank of a run's position in renderDiagram.
PcRank(pc) == CASE pc = "awaitImport" -> 1 [] pc = "awaitRender" -> 2 [] pc = "done" -> 3

\* C18: while the run of the current input of a mounted component has not
\* returned, the container is empty; a step that neither changes the input,
\* tears the component down nor ends that run leaves the container as it is
\* and starts no run; and no run ever goes back to an earlier await.
C18_HungRenderStaysEmpty ==
    /\ []((life = "mounted" /\ runs[CurrentRun].pc # "done") => container.html = "empty")
    /\ [][/\ (/\ life = "mounted" /\ life' = "mounted" /\ code' = code
              /\ runs[CurrentRun].pc # "done" /\ runs'[CurrentRun].pc # "done") =>
                 /\ container' = container
                 /\ Len(runs') = Len(runs)
          /\ \A i \in RunIds : PcRank(runs'[i].pc) >= PcRank(runs[i].pc)]_vars

\* The engine threw for a superseded run while the render of the current
\* input was still awaited.
C18_Witness ==
    /\ life = "mounted"
    /\ Len(runs) = 2
    /\ runs[1].outcome = "failedDiscarded"
    /\ runs[2].pc = "awaitRender"
    /\ container.html = "empty"

\* The outcomes of a run whose render was discarded or failed.
DiscardedOrFailed == {"discarded", "failed", "failedDiscarded", "bindFailed"}

\* C23: bindings are attached to the container only while it holds the markup
\* written by the run they belong to, a run that ended rendered; and the step
\* in which a run ends discarded or failed attaches none.
C23_BindingsOnlyOnWrittenMarkup ==
    /\ [](container.bound =>
             /\ container.html = "svg"
             /\ container.by \in RunIds
             /\ container.of = runs[container.by].trimmed
             /\ runs[container.by].outcome = "rendered")
    /\ [][\A i \in RunIds :
             (runs[i].pc # "done" /\ runs'[i].pc = "done"
                  /\ runs'[i].outcome \in DiscardedOrFailed) =>
                 /\ container'.bound => container' = container
                 /\ container'.by = i => ~container'.bound]_vars

\* The render of the current input is in the container with its bindings,
\* after the render of a superseded input was discarded.
C23_Witness ==
    /\ life = "mounted"
    /\ Len(runs) = 2
    /\ runs[1].outcome = "discarded"
    /\ runs[2].outcome = "rendered"
    /\ container.bound
    /\ container.by = 2

\* C24: the failure notice in the container was written by the run of the last
\* input, which ended in failure; and a run that throws after its input was
\* superseded or the component was unmounted leaves the container as it is.
C24_NoticeOnlyForCurrentInput ==
    /\ [](container.html = "notice" =>
             /\ container.by = CurrentRun
             /\ runs[CurrentRun].outcome \in {"failed", "bindFailed"})
    /\ [][\A i \in RunIds :
             (/\ i # CurrentRun \/ life = "unmounted"
              /\ runs[i].pc # "done"
              /\ runs'[i].pc = "done"
              /\ runs'[i].outcome \in {"failed", "failedDiscarded", "bindFailed"}) =>
                 /\ runs'[i].outcome = "failedDiscarded"
                 /\ container' = container]_vars

\* The engine threw for a superseded input and for the current one; the
\* notice in the container is the current run's.
C24_Witness ==
    /\ life = "mounted"
    /\ Len(runs) = 2
    /\ runs[1].outcome = "failedDiscarded"
    /\ runs[2].outcome = "failed"
    /\ container.html = "notice"
    /\ container.by = 2

\* The container shows the render of input d, or the failure notice of the
\* run of the last input.
ShowsResultOf(d) ==
    \/ container.html = "svg" /\ container.of = Trim(d) /\ container.by = CurrentRun
    \/ container.html = "notice" /\ container.by = CurrentRun

\* C25: for every non-blank input d, if from some point on the component is
\* mounted with input d, then from some point on the container shows the
\* render of d or the failure notice of d's run.
C25_EventuallyShowsLatest ==
    \A d \in {t \in Texts : Trim(t) # <<>>} :
        <>[](life = "mounted" /\ code = d) => <>[]ShowsResultOf(d)

\* Two inputs were rendered one after the other; the second is displayed.
C25_Witness ==
    /\ life = "mounted"
    /\ Len(runs) = 2
    /\ runs[1].outcome = "rendered"
    /\ runs[2].outcome = "rendered"
    /\ Trim(code) # <<>>
    /\ container.html = "svg"
    /\ container.of = Trim(code)

\* ------------------------------------------------------------------------
\* Environment, API host and Basic auth (module level of both pages)
\* ------------------------------------------------------------------------
\* An environment variable that is not set.
Undefined == <<"undefined">>

\* JavaScript truthiness of a string or undefined
Truthy(v) == v # Undefined /\ v # <<>>

\* a || b
OrElse(a, b) == IF Truthy(a) THEN a ELSE b

EnvConfigs ==
    [API_HOST : {Undefined, <<"h">>},
     NEXT_PUBLIC_API_HOST : {Undefined, <<"n">>},
     USERNAME : {Undefined, <<>>, <<"u">>},
     NEXT_PUBLIC_USERNAME : {Undefined, <<>>, <<"a", "b">>},
     PASSWORD : {Undefined, <<>>, <<"p">>},
     NEXT_PUBLIC_PASSWORD : {Undefined, <<>>, <<"p", "q">>}]

\* const apiHost = process.env.API_HOST || process.env.NEXT_PUBLIC_API_HOST || ''
ApiHost(e) == OrElse(OrElse(e.API_HOST, e.NEXT_PUBLIC_API_HOST), <<>>)

\* const username = process.env.USERNAME || process.env.NEXT_PUBLIC_USERNAME
Username(e) == OrElse(e.USERNAME, e.NEXT_PUBLIC_USERNAME)

\* const password = process.env.PASSWORD || process.env.NEXT_PUBLIC_PASSWORD
Password(e) == OrElse(e.PASSWORD, e.NEXT_PUBLIC_PASSWORD)

\* The character code of the characters credentials are made of.
CharCode(c) ==
    CASE c = ":" -> 58
      [] c = "a" -> 97
      [] c = "b" -> 98
      [] c = "p" -> 112
      [] c = "q" -> 113
      [] c = "u" -> 117

Base64Alphabet ==
    <<"A", "B", "C", "D", "E", "F", "G", "H", "I", "J", "K", "L", "M", "N", "O", "P",
      "Q", "R", "S", "T", "U", "V", "W", "X", "Y", "Z", "a", "b", "c", "d", "e", "f",
      "g", "h", "i", "j", "k", "l", "m", "n", "o", "p", "q", "r", "s", "t", "u", "v",
      "w", "x", "y", "z", "0", "1", "2", "3", "4", "5", "6", "7", "8", "9", "+", "/">>

\* btoa of a sequence of bytes: three bytes give four characters, '=' pads.
RECURSIVE Base64OfBytes(_)
Base64OfBytes(bytes) ==
    IF bytes = <<>> THEN <<>>
    ELSE LET n == IF Len(bytes) < 3 THEN Len(bytes) ELSE 3
             b2 == IF n >= 2 THEN bytes[2] ELSE 0
             b3 == IF n >= 3 THEN bytes[3] ELSE 0
             v == bytes[1] * 65536 + b2 * 256 + b3
         IN  <<Base64Alphabet[(v \div 262144) + 1],
               Base64Alphabet[((v \div 4096) % 64) + 1],
               IF n >= 2 THEN Base64Alphabet[((v \div 64) % 64) + 1] ELSE "=",
               IF n >= 3 THEN Base64Alphabet[(v % 64) + 1] ELSE "=">>
             \o Base64OfBytes(SubSeq(bytes, n + 1, Len(bytes)))

\* btoa(text)
Btoa(text) == Base64OfBytes([i \in 1..Len(text) |-> CharCode(text[i])])

BasicPrefix == <<"B", "a", "s", "i", "c", " ">>

\* const auth = username && password ? 'Basic ' + btoa(username + ':' + password) : ''
AuthNoSeparator(e) ==
    IF Truthy(Username(e)) /\ Truthy(Password(e))
    THEN BasicPrefix \o Btoa(Username(e) \o Password(e))
    ELSE <<>>
Auth(e) ==
    IF Truthy(Username(e)) /\ Truthy(Password(e))
    THEN BasicPrefix \o Btoa(Username(e) \o <<":">> \o Password(e))
    ELSE <<>>

\* headers of the v1 request: { 'Content-Type': ..., ...(auth ? { Authorization: auth } : {}) }
\* (headers are sets of <<name, value>> pairs)
V1Headers(e) ==
    {<<"Content-Type", <<"application/json">>>>}
        \cup (IF Auth(e) # <<>> THEN {<<"Authorization", Auth(e)>>} ELSE {})

\* ------------------------------------------------------------------------
\* v1 page: data of the response
\* ------------------------------------------------------------------------
\* null of a string-valued state (errorMessage, activeFlowSlug, activeScreenId)
Null == "<null>"

\* null of an object-valued state (yanaResult, activeFlow, activeScreen)
NullObj == [null |-> TRUE]

Screen(id, title) == [screen_id |-> id, title |-> title]
Flow(slug, name, ids) == [flow_slug |-> slug, name |-> name, screens |-> ids]

\* Response bodies the backend is taken to send with a 2xx status.
TwoFlowsFiveScreens ==
    [screen_flows |-> <<Flow("f1", "A", <<"s1", "s2">>), Flow("f2", "B", <<"s3", "s4", "s5">>)>>,
     screens |-> <<Screen("s1", "1"), Screen("s2", "2"), Screen("s3", "3"),
                   Screen("s4", "4"), Screen("s5", "5")>>]

DuplicateFlowSlug ==
    [screen_flows |-> <<Flow("f1", "A", <<"s1">>), Flow("f1", "B", <<"s2", "s3">>)>>,
     screens |-> <<Screen("s1", "1"), Screen("s2", "2"), Screen("s3", "3")>>]

SharedAndDangling ==
    [screen_flows |-> <<Flow("f1", "A", <<"s9", "s1">>), Flow("f2", "B", <<"s1", "s2">>),
                        Flow("f3", "C", <<>>)>>,
     screens |-> <<Screen("s1", "1"), Screen("s2", "2"), Screen("s1", "1bis")>>]

NoFlows == [screen_flows |-> <<>>, screens |-> <<Screen("s1", "1")>>]

\* a body without the screen_flows field
FlowsAbsent == [screens |-> <<Screen("s3", "3")>>]

\* The optional fields of a body and a value for each.
OptionalFields == {"evaluation", "retrieval", "debug"}

Workflow(id, title) == [workflow_id |-> id, workflow_title |-> title]
Hit(type, hitCode) == [source_type |-> type, code |-> hitCode]

Evaluation ==
    [workflows |-> <<Workflow("f1", "A"), Workflow("f2", "B"), Workflow("", "C")>>,
     recommended_workflow_id |-> "f2"]

\* eleven hits, nine of them of the types the panel lists
ManyHits ==
    [vector_hits |-> <<Hit("FLOW", "h1"), Hit("STEP", "h2"), Hit("COMP", "h3"), Hit("FLOW", "h4"),
                       Hit("COMP", "h5"), Hit("SCREEN", "h6"), Hit("FLOW", "h7"), Hit("FLOW", "h8"),
                       Hit("COMP", "h9"), Hit("COMP", "h10"), Hit("FLOW", "h11")>>]

FewHits == [vector_hits |-> <<Hit("STEP", "h1"), Hit("COMP", "h2"), Hit("FLOW", "h3")>>]

Debug == [agent1_bundle |-> "bundle"]

OptionalValue(field) ==
    CASE field = "evaluation" -> Evaluation
      [] field = "retrieval" -> ManyHits
      [] field = "debug" -> Debug

\* body `base` with the optional fields `present`
WithOptional(base, present) ==
    [field \in DOMAIN base \cup present |->
        IF field \in DOMAIN base THEN base[field] ELSE OptionalValue(field)]

FewHitsBody ==
    [screen_flows |-> <<Flow("f1", "A", <<"s1">>)>>, screens |-> <<Screen("s1", "1")>>,
     evaluation |-> Evaluation, retrieval |-> FewHits]

ResultBodies ==
    {TwoFlowsFiveScreens, DuplicateFlowSlug, NoFlows, FlowsAbsent, FewHitsBody}
        \cup {WithOptional(SharedAndDangling, present) : present \in SUBSET OptionalFields}

\* What response.json() yields: a rejection, or the decoded value.
Undecodable == [decoded |-> FALSE, message |-> "Unexpected token < in JSON"]
Decoded(v) == [decoded |-> TRUE, value |-> v]

\* Bodies of non-2xx responses.
ErrorBodies ==
    {Undecodable, Decoded(NullObj), Decoded([detail |-> "x"]),
     Decoded([error |-> ""]), Decoded([error |-> "quota exceeded"])}

\* What fetch() settles with.
Replies ==
    {[kind |-> "rejected", message |-> m] : m \in {"Failed to fetch", ""}}
    \cup {[kind |-> "response", ok |-> FALSE, status |-> st, json |-> j] :
             st \in {404, 500}, j \in ErrorBodies}
    \cup {[kind |-> "response", ok |-> TRUE, status |-> 200, json |-> j] :
             j \in {Undecodable, Decoded(NullObj)} \cup {Decoded(r) : r \in ResultBodies}}

\* `Request failed with ${response.status}`
RequestFailedWith(status) ==
    CASE status = 404 -> "Request failed with 404"
      [] status = 500 -> "Request failed with 500"
      [] OTHER -> "Request failed with status"

\* ------------------------------------------------------------------------
\* v1 page: state
\* ------------------------------------------------------------------------
\* const flows = yanaResult?.screen_flows || []
Flows(r) == IF r # NullObj /\ "screen_flows" \in DOMAIN r THEN r.screen_flows ELSE <<>>

\* const screens = yanaResult?.screens || []
Screens(r) == IF r # NullObj /\ "screens" \in DOMAIN r THEN r.screens ELSE <<>>

\* Array.prototype.find on flows by flow_slug: the index of the first match, or 0
FindFlow(flows, slug) ==
    LET hits == {i \in 1..Len(flows) : flows[i].flow_slug = slug}
    IN  IF hits = {} THEN 0 ELSE CHOOSE i \in hits : \A j \in hits : i <= j

\* Array.prototype.find on screens by screen_id: the first match, or NullObj
FindLastScreen(list, id) ==
    LET hits == {i \in 1..Len(list) : list[i].screen_id = id}
    IN  IF hits = {} THEN NullObj ELSE list[CHOOSE i \in hits : \A j \in hits : j <= i]
FindScreen(list, id) ==
    LET hits == {i \in 1..Len(list) : list[i].screen_id = id}
    IN  IF hits = {} THEN NullObj ELSE list[CHOOSE i \in hits : \A j \in hits : i <= j]

\* activeFlow = flows.find(f => f.flow_slug === activeFlowSlug) || flows[0] || null
ActiveFlowIgnoresSlug(r, slug) == IF Flows(r) # <<>> THEN Flows(r)[1] ELSE NullObj
ActiveFlow(r, slug) ==
    LET flows == Flows(r)
    IN  IF FindFlow(flows, slug) # 0 THEN flows[FindFlow(flows, slug)]
        ELSE IF flows # <<>> THEN flows[1]
        ELSE NullObj

\* ids.map(id => screens.find(s => s.screen_id === id)).filter(Boolean)
RECURSIVE ResolveScreens(_, _)
ResolveScreens(ids, list) ==
    IF ids = <<>> THEN <<>>
    ELSE LET found == FindScreen(list, Head(ids))
         IN  (IF found = NullObj THEN <<>> ELSE <<found>>) \o ResolveScreens(Tail(ids), list)

\* screensForFlow
ScreensForFlow(r, slug) ==
    IF ActiveFlow(r, slug) # NullObj /\ r # NullObj
    THEN ResolveScreens(ActiveFlow(r, slug).screens, Screens(r))
    ELSE <<>>

\* activeScreen = screensForFlow.find(..) || screens.find(..) || screensForFlow[0] || null
ActiveScreen(r, slug, id) ==
    LET shown == ScreensForFlow(r, slug)
    IN  IF FindScreen(shown, id) # NullObj THEN FindScreen(shown, id)
        ELSE IF FindScreen(Screens(r), id) # NullObj THEN FindScreen(Screens(r), id)
        ELSE IF shown # <<>> THEN shown[1]
        ELSE NullObj

\* flow.screens[0] || null
FirstScreenId(flow) ==
    IF flow.screens # <<>> /\ flow.screens[1] # "" THEN flow.screens[1] ELSE Null

\* `yanaResult?.field` is truthy
HasField(r, field) == r # NullObj /\ field \in DOMAIN r

\* The calls flowByScreenId.set(sid, flow.flow_slug) in the order they are made.
RECURSIVE ScreenFlowPairs(_)
ScreenFlowPairs(flows) ==
    IF flows = <<>> THEN <<>>
    ELSE [k \in 1..Len(Head(flows).screens) |-> <<Head(flows).screens[k], Head(flows).flow_slug>>]
             \o ScreenFlowPairs(Tail(flows))

\* Map.prototype.get after the calls of set in `pairs`: a later set of a key
\* replaces the earlier one; Null when the key was never set.
MapGet(pairs, key) ==
    LET hits == {i \in 1..Len(pairs) : pairs[i][1] = key}
    IN  IF hits = {} THEN Null ELSE pairs[CHOOSE i \in hits : \A j \in hits : j <= i][2]

\* flowByScreenId.get(sid)
FlowByScreenId(r, sid) == MapGet(ScreenFlowPairs(Flows(r)), sid)

\* The gate of the "Flow evaluation" panel: yanaResult && activeScreen && yanaResult?.evaluation
EvaluationPanelShown(r, slug, id) ==
    /\ r # NullObj
    /\ ActiveScreen(r, slug, id) # NullObj
    /\ HasField(r, "evaluation")

\* const flowSlug = flowByScreenId.get(activeScreen.screen_id)
EvaluationFlowSlug(r, slug, id) == FlowByScreenId(r, ActiveScreen(r, slug, id).screen_id)

\* yanaResult.evaluation!.workflows || []
Workflows(r) == IF "workflows" \in DOMAIN r.evaluation THEN r.evaluation.workflows ELSE <<>>

\* evalByFlowId.get(key): the map holds the workflows with a truthy
\* workflow_id, a later one replacing an earlier one of the same id.
EvalByFlowId(r, key) ==
    LET rows == Workflows(r)
        hits == {i \in 1..Len(rows) : rows[i].workflow_id # "" /\ rows[i].workflow_id = key}
    IN  IF hits = {} THEN NullObj ELSE rows[CHOOSE i \in hits : \A j \in hits : j <= i]

\* workflows.find(w => w.workflow_id === flowSlug || w.workflow_title === activeFlow?.name)
FindWorkflow(r, flowSlug, flow) ==
    LET rows == Workflows(r)
        hits == {i \in 1..Len(rows) :
                    \/ rows[i].workflow_id = flowSlug
                    \/ flow # NullObj /\ rows[i].workflow_title = flow.name}
    IN  IF hits = {} THEN NullObj ELSE rows[CHOOSE i \in hits : \A j \in hits : i <= j]

\* The evaluation row whose metrics the panel shows, NullObj when it shows
\* one of its two notes instead.
EvalRow(r, slug, id) ==
    LET flowSlug == EvaluationFlowSlug(r, slug, id)
    IN  IF flowSlug = Null \/ flowSlug = "" THEN NullObj
        ELSE IF EvalByFlowId(r, flowSlug) # NullObj THEN EvalByFlowId(r, flowSlug)
        ELSE FindWorkflow(r, flowSlug, ActiveFlow(r, slug))

\* The gate of the "Similar flows & components" panel, nested in the
\* evaluation gate: yanaResult.retrieval?.vector_hits
SimilarityPanelShown(r, slug, id) ==
    /\ EvaluationPanelShown(r, slug, id)
    /\ HasField(r, "retrieval")
    /\ "vector_hits" \in DOMAIN r.retrieval

\* h.source_type === 'FLOW' || h.source_type === 'COMP'
IsListedType(h) == h.source_type = "FLOW" \/ h.source_type = "COMP"

\* Array.prototype.filter with IsListedType
RECURSIVE FilterListed(_)
FilterListed(hits) ==
    IF hits = <<>> THEN <<>>
    ELSE (IF IsListedType(Head(hits)) THEN <<Head(hits)>> ELSE <<>>) \o FilterListed(Tail(hits))

\* Array.prototype.slice(0, end)
SliceFromStart(list, end) == SubSeq(list, 1, IF Len(list) < end THEN Len(list) ELSE end)

MaxHitsShown == 8

\* vector_hits.filter(...).slice(0, 8): the rows of the similarity panel
SimilarityHitsUnsliced(r) == FilterListed(r.retrieval.vector_hits)
SimilarityHits(r) == SliceFromStart(FilterListed(r.retrieval.vector_hits), MaxHitsShown)

\* The gate of the "Debug JSON" panel: yanaResult && activeScreen && yanaResult?.debug
DebugPanelAlways(r, slug, id) ==
    /\ r # NullObj
    /\ ActiveScreen(r, slug, id) # NullObj
DebugPanelShown(r, slug, id) ==
    /\ r # NullObj
    /\ ActiveScreen(r, slug, id) # NullObj
    /\ HasField(r, "debug")

\* The optional fields whose panel is part of the rendered page.
PanelsShown(r, slug, id) ==
    (IF EvaluationPanelShown(r, slug, id) THEN {"evaluation"} ELSE {})
        \cup (IF SimilarityPanelShown(r, slug, id) THEN {"retrieval"} ELSE {})
        \cup (IF DebugPanelShown(r, slug, id) THEN {"debug"} ELSE {})

\* The guard of submitPrompt: `if (!prompt.trim()) return`
IsBlankPromptNoTrim(p) == p = <<>>
IsBlankPrompt(p) == Trim(p) = <<>>

\* The request submitPrompt hands to fetch().
SearchRequest(p) ==
    [method |-> "POST", host |-> ApiHost(env), path |-> "/api/v1/search", search |-> <<>>,
     headers |-> V1Headers(env), body |-> [query |-> p]]

\* submitPrompt(e) up to its first await.
SubmitPromptKeepsMessage ==
    /\ route = "/v1"
    /\ nSubmits < MaxSubmits
    /\ UNCHANGED <<diagramVars, rootVars>>
    /\ nSubmits' = nSubmits + 1
    /\ IF IsBlankPrompt(prompt)
       THEN UNCHANGED <<prompt, yanaResult, responseStatus, errorMessage, activeFlowSlug,
                        activeScreenId, inFlight, nAccepted, nRequests>>
       ELSE /\ responseStatus' = "sent"
            /\ inFlight' = Append(inFlight, SearchRequest(prompt))
            /\ nAccepted' = nAccepted + 1
            /\ nRequests' = nRequests + 1
            /\ UNCHANGED <<prompt, yanaResult, errorMessage, activeFlowSlug, activeScreenId>>
SubmitPrompt ==
    /\ route = "/v1"
    /\ nSubmits < MaxSubmits
    /\ UNCHANGED <<diagramVars, rootVars>>
    /\ nSubmits' = nSubmits + 1
    /\ IF IsBlankPrompt(prompt)
       THEN UNCHANGED <<prompt, yanaResult, responseStatus, errorMessage, activeFlowSlug,
                        activeScreenId, inFlight, nAccepted, nRequests>>
       ELSE /\ responseStatus' = "sent"
            /\ errorMessage' = Null
            /\ inFlight' = Append(inFlight, SearchRequest(prompt))
            /\ nAccepted' = nAccepted + 1
            /\ nRequests' = nRequests + 1
            /\ UNCHANGED <<prompt, yanaResult, activeFlowSlug, activeScreenId>>

\* onChange of the textarea
SetPrompt(t) ==
    /\ route = "/v1"
    /\ prompt' = t
    /\ t # prompt
    /\ UNCHANGED <<yanaResult, responseStatus, errorMessage, activeFlowSlug, activeScreenId,
                   inFlight, nSubmits, nAccepted, nRequests, diagramVars, rootVars>>

\* The submit button (disabled while status is 'sent') submits the form.
ClickSubmitNeverDisabled == SubmitPrompt
ClickSubmit ==
    /\ responseStatus # "sent"
    /\ SubmitPrompt

\* handleKeyDown: Cmd/Ctrl+Enter submits unless a request is pending.
HandleKeyDownUnguarded(isEnter, withMeta) ==
    /\ route = "/v1"
    /\ IF isEnter /\ withMeta THEN SubmitPrompt ELSE UNCHANGED vars
HandleKeyDown(isEnter, withMeta) ==
    /\ route = "/v1"
    /\ IF isEnter /\ withMeta /\ responseStatus # "sent"
       THEN SubmitPrompt
       ELSE UNCHANGED vars

\* (errBody && errBody.error) || `Request failed with ${response.status}`
NonOkMessageNoFallback(reply) ==
    IF reply.json.decoded /\ reply.json.value # NullObj /\ "error" \in DOMAIN reply.json.value
    THEN reply.json.value.error
    ELSE Null
NonOkMessage(reply) ==
    IF /\ reply.json.decoded
       /\ reply.json.value # NullObj
       /\ "error" \in DOMAIN reply.json.value
       /\ reply.json.value.error # ""
    THEN reply.json.value.error
    ELSE RequestFailedWith(reply.status)

\* (err as Error).message || 'Unknown error'
CaughtMessage(message) == IF message # "" THEN message ELSE "Unknown error"

\* The exception the success branch runs into, "" when it completes:
\* `data.screen_flows` of a null body.
ProcessingError(data) ==
    IF data = NullObj THEN "Cannot read properties of null (reading 'screen_flows')" ELSE ""

\* The page state [result, status, message, slug, screen] after the
\* continuation of submitPrompt that follows the settled fetch().
AfterReplyKeepsSelection(reply, result, message, slug, screen) ==
    IF reply.kind = "response" /\ reply.ok /\ reply.json.decoded /\ reply.json.value # NullObj
    THEN [result |-> reply.json.value, status |-> "received", message |-> message,
          slug |-> slug, screen |-> screen]
    ELSE [result |-> result, status |-> "error", message |-> "Unknown error",
          slug |-> slug, screen |-> screen]
AfterReply(reply, result, message, slug, screen) ==
    IF reply.kind = "rejected"
    THEN [result |-> result, status |-> "error", message |-> CaughtMessage(reply.message),
          slug |-> slug, screen |-> screen]
    ELSE IF ~reply.ok
    THEN [result |-> result, status |-> "error", message |-> NonOkMessage(reply),
          slug |-> slug, screen |-> screen]
    ELSE IF ~reply.json.decoded
    THEN [result |-> result, status |-> "error", message |-> CaughtMessage(reply.json.message),
          slug |-> slug, screen |-> screen]
    ELSE LET data == reply.json.value
         IN  IF ProcessingError(data) # ""
             THEN \* setYanaResult(data) and setResponseStatus('received') ran before the
                  \* throw; the catch block then overwrites the status in the same batch
                  [result |-> data, status |-> "error",
                   message |-> CaughtMessage(ProcessingError(data)),
                   slug |-> slug, screen |-> screen]
             ELSE [result |-> data, status |-> "received", message |-> message,
                   slug |-> IF Flows(data) # <<>> THEN Flows(data)[1].flow_slug ELSE slug,
                   screen |-> IF Flows(data) # <<>> THEN FirstScreenId(Flows(data)[1])
                              ELSE screen]

\* Removal of the k-th element of a sequence.
RemoveAt(q, k) == SubSeq(q, 1, k - 1) \o SubSeq(q, k + 1, Len(q))

\* The fetch() of the k-th pending request settles with reply, and submitPrompt
\* runs to its end.
FetchSettlesRetrying(k, reply) ==
    /\ route = "/v1"
    /\ k \in 1..Len(inFlight)
    /\ LET after == AfterReply(reply, yanaResult, errorMessage, activeFlowSlug, activeScreenId)
       IN  /\ yanaResult' = after.result
           /\ responseStatus' = after.status
           /\ errorMessage' = after.message
           /\ activeFlowSlug' = after.slug
           /\ activeScreenId' = after.screen
           /\ inFlight' = IF after.status = "error" THEN inFlight ELSE RemoveAt(inFlight, k)
           /\ nRequests' = IF after.status = "error" THEN nRequests + 1 ELSE nRequests
    /\ UNCHANGED <<prompt, nSubmits, nAccepted, diagramVars, rootVars>>
FetchSettles(k, reply) ==
    /\ route = "/v1"
    /\ k \in 1..Len(inFlight)
    /\ LET after == AfterReply(reply, yanaResult, errorMessage, activeFlowSlug, activeScreenId)
       IN  /\ yanaResult' = after.result
           /\ responseStatus' = after.status
           /\ errorMessage' = after.message
           /\ activeFlowSlug' = after.slug
           /\ activeScreenId' = after.screen
    /\ inFlight' = RemoveAt(inFlight, k)
    /\ UNCHANGED <<prompt, nSubmits, nAccepted, nRequests, diagramVars, rootVars>>

\* onClick of the tab of the k-th flow of the held result
ClickFlowTab(k) ==
    /\ route = "/v1"
    /\ yanaResult # NullObj
    /\ k \in 1..Len(Flows(yanaResult))
    /\ activeFlowSlug' = Flows(yanaResult)[k].flow_slug
    /\ activeScreenId' = FirstScreenId(Flows(yanaResult)[k])
    /\ UNCHANGED <<prompt, yanaResult, responseStatus, errorMessage, inFlight,
                   nSubmits, nAccepted, nRequests, diagramVars, rootVars>>

\* onClick of the k-th card of the screens row
ClickScreenCard(k) ==
    /\ route = "/v1"
    /\ yanaResult # NullObj
    /\ k \in 1..Len(ScreensForFlow(yanaResult, activeFlowSlug))
    /\ activeScreenId' = ScreensForFlow(yanaResult, activeFlowSlug)[k].screen_id
    /\ UNCHANGED <<prompt, yanaResult, responseStatus, errorMessage, activeFlowSlug,
                   inFlight, nSubmits, nAccepted, nRequests, diagramVars, rootVars>>

\* ------------------------------------------------------------------------
\* Root page (the first Home of src/app/page.tsx)
\* ------------------------------------------------------------------------
\* encodeURIComponent of one character
EncodeChar(c) == IF c = " " THEN <<"%", "2", "0">> ELSE <<c>>

\* encodeURIComponent(text)
RECURSIVE EncodeURIComponent(_)
EncodeURIComponent(text) ==
    IF text = <<>> THEN <<>> ELSE EncodeChar(Head(text)) \o EncodeURIComponent(Tail(text))

\* requestParams.headers, set only `if (auth)`
RootHeaders(e) == IF Auth(e) # <<>> THEN {<<"Authorization", Auth(e)>>} ELSE {}

\* fetch(`${apiHost}/api/search?query=${encodeURIComponent(prompt)}`, requestParams)
RootRequest(p) ==
    [method |-> "GET", host |-> ApiHost(env), path |-> "/api/search",
     search |-> <<"q", "u", "e", "r", "y", "=">> \o EncodeURIComponent(p),
     headers |-> RootHeaders(env), body |-> NullObj]

\* What the root page's fetch() settles with; the status of the response is not read.
RootReplies ==
    {[kind |-> "rejected"]}
    \cup {[kind |-> "response", text |-> t] : t \in {"", "<div>screen</div>"}}

\* submitPrompt(e) of the root page up to its first await. The closure keeps
\* the responseMessage of the render it was created in.
RootSubmitPrompt ==
    /\ route = "/"
    /\ rootSubmits < MaxSubmits
    /\ rootSubmits' = rootSubmits + 1
    /\ rootResponseStatus' = "sent"
    /\ rootInFlight' = Append(rootInFlight,
                              [request |-> RootRequest(rootPrompt),
                               responseMessage |-> rootResponseMessage])
    /\ UNCHANGED <<env, route, rootPrompt, rootResponseMessage, diagramVars, pageVars>>

\* onChange of the input (disabled while status is 'sent')
RootSetPrompt(t) ==
    /\ route = "/"
    /\ rootResponseStatus # "sent"
    /\ t # rootPrompt
    /\ rootPrompt' = t
    /\ UNCHANGED <<env, route, rootResponseMessage, rootResponseStatus, rootInFlight,
                   rootSubmits, diagramVars, pageVars>>

\* The submit button (disabled while status is 'sent') submits the form.
RootClickSubmit ==
    /\ rootResponseStatus # "sent"
    /\ RootSubmitPrompt

\* handleKeyDown of the root page: Enter without Shift submits unless a
\* request is pending.
RootHandleKeyDown(isEnter, withShift) ==
    /\ route = "/"
    /\ IF isEnter /\ ~withShift /\ rootResponseStatus # "sent"
       THEN RootSubmitPrompt
       ELSE UNCHANGED vars

\* The fetch() of the k-th pending request settles and submitPrompt runs to its end.
RootFetchSettles(k, reply) ==
    /\ route = "/"
    /\ k \in 1..Len(rootInFlight)
    /\ IF reply.kind = "response"
       THEN /\ rootResponseMessage' = reply.text
            /\ rootResponseStatus' = "received"
       ELSE /\ rootResponseMessage' = rootInFlight[k].responseMessage
            /\ rootResponseStatus' = "error"
    /\ rootInFlight' = RemoveAt(rootInFlight, k)
    /\ UNCHANGED <<env, route, rootPrompt, rootSubmits, diagramVars, pageVars>>

\* The environment of the runs in which it is fixed: credentials and host set.
DefaultEnv ==
    [API_HOST |-> Undefined, NEXT_PUBLIC_API_HOST |-> <<"n">>,
     USERNAME |-> Undefined, NEXT_PUBLIC_USERNAME |-> <<"a", "b">>,
     PASSWORD |-> Undefined, NEXT_PUBLIC_PASSWORD |-> <<"p", "q">>]

RootInit ==
    /\ rootPrompt = <<>>
    /\ rootResponseMessage = ""
    /\ rootResponseStatus = "not sent"
    /\ rootInFlight = <<>>
    /\ rootSubmits = 0

RootNext ==
    \/ \E t \in Texts : RootSetPrompt(t)
    \/ RootClickSubmit
    \/ \E isEnter \in BOOLEAN, withShift \in BOOLEAN : RootHandleKeyDown(isEnter, withShift)
    \/ \E k \in 1..MaxSubmits, reply \in RootReplies : RootFetchSettles(k, reply)

PageInit ==
    /\ prompt = <<>>
    /\ yanaResult = NullObj
    /\ responseStatus = "not sent"
    /\ errorMessage = Null
    /\ activeFlowSlug = Null
    /\ activeScreenId = Null
    /\ inFlight = <<>>
    /\ nSubmits = 0
    /\ nAccepted = 0
    /\ nRequests = 0

PageNext ==
    \/ \E t \in Texts : SetPrompt(t)
    \/ ClickSubmit
    \/ \E isEnter \in BOOLEAN, withMeta \in BOOLEAN : HandleKeyDown(isEnter, withMeta)
    \/ \E k \in 1..MaxSubmits, reply \in Replies : FetchSettles(k, reply)
    \/ \E k \in 1..Len(Flows(yanaResult)) : ClickFlowTab(k)
    \/ \E k \in 1..Len(ScreensForFlow(yanaResult, activeFlowSlug)) : ClickScreenCard(k)

Init ==
    /\ DiagramInit
    /\ PageInit
    /\ RootInit
    /\ env = DefaultEnv
    /\ route = "/v1"

\* A visit to the root page.
InitRoot ==
    /\ DiagramInit
    /\ PageInit
    /\ RootInit
    /\ env = DefaultEnv
    /\ route = "/"

SpecRoot == InitRoot /\ [][RootNext]_vars

\* A visit to either page under any environment, up to the requests leaving.
InitAuth ==
    /\ DiagramInit
    /\ PageInit
    /\ RootInit
    /\ env \in EnvConfigs
    /\ route \in {"/", "/v1"}

AuthNext ==
    \/ \E t \in Texts : SetPrompt(t)
    \/ ClickSubmit
    \/ \E isEnter \in BOOLEAN, withMeta \in BOOLEAN : HandleKeyDown(isEnter, withMeta)
    \/ \E t \in Texts : RootSetPrompt(t)
    \/ RootClickSubmit
    \/ \E isEnter \in BOOLEAN, withShift \in BOOLEAN : RootHandleKeyDown(isEnter, withShift)

SpecAuth == InitAuth /\ [][AuthNext]_vars

\* The page alone: the prompt form, the held result and the selections.
SpecPage == Init /\ [][PageNext]_vars

\* One MermaidDiagram instance alone.
SpecDiagram == Init /\ [][DiagramNext]_vars

\* The engine settles every call: the import and the render of every run
\* eventually resolve or throw.
EngineSettles ==
    \A i \in 1..MaxRuns :
        /\ WF_vars(ImportResolves(i) \/ EngineThrows(i, "load"))
        /\ WF_vars(\/ EngineThrows(i, "render")
                   \/ \E hasSvgEl \in BOOLEAN, bind \in BindResults :
                          RenderResolves(i, hasSvgEl, bind))

SpecDiagramLive == Init /\ [][DiagramNext]_vars /\ EngineSettles

\* ------------------------------------------------------------------------
\* v1 page: properties
\* ------------------------------------------------------------------------
\* A step in which submitPrompt was called.
SubmitStep == nSubmits' = nSubmits + 1

\* A step in which a pending fetch() settled.
SettleStep == Len(inFlight') < Len(inFlight)

\* C5: a submit with an empty or whitespace-only prompt issues no request and
\* leaves status, message, result and selections as they were.
C5_BlankSubmitIsNoOp ==
    [][(SubmitStep /\ Trim(prompt) = <<>>) =>
          UNCHANGED <<responseStatus, errorMessage, yanaResult, activeFlowSlug,
                      activeScreenId, inFlight, nRequests>>]_vars

\* A whitespace-only prompt was submitted while a result was held.
C5_Witness ==
    /\ nSubmits = nAccepted + 1
    /\ nRequests = 1
    /\ prompt # <<>>
    /\ Trim(prompt) = <<>>
    /\ yanaResult # NullObj
    /\ responseStatus = "received"

\* The screens a flow lists: its identifiers that match a screen, in the
\* flow's order, each replaced by the first screen carrying it.
ListedScreens(flow, r) ==
    LET known(id) == \E j \in 1..Len(Screens(r)) : Screens(r)[j].screen_id = id
        ids == SelectSeq(flow.screens, known)
        first(id) == CHOOSE j \in 1..Len(Screens(r)) :
                        /\ Screens(r)[j].screen_id = id
                        /\ \A h \in 1..(j - 1) : Screens(r)[h].screen_id # id
    IN  [i \in 1..Len(ids) |-> Screens(r)[first(ids[i])]]

\* The click on the k-th tab shows the k-th flow's screens, the first one active.
TabShowsItsFlow(k) ==
    LET flow == Flows(yanaResult)[k]
    IN  /\ ScreensForFlow(yanaResult', activeFlowSlug') = ListedScreens(flow, yanaResult)
        /\ ListedScreens(flow, yanaResult) # <<>> =>
               ActiveScreen(yanaResult', activeFlowSlug', activeScreenId')
                   = ListedScreens(flow, yanaResult)[1]

\* C6 as claimed: the click on the tab of any flow shows that flow's screens.
C6_AnyTabShowsItsFlow ==
    [][\A k \in 1..Len(Flows(yanaResult)) : ClickFlowTab(k) => TabShowsItsFlow(k)]_vars

\* C6: the click on the tab of a flow that is the first of the result with its
\* flow_slug shows exactly that flow's screens and makes the first one active.
C6_FirstTabOfSlugShowsItsFlow ==
    [][\A k \in 1..Len(Flows(yanaResult)) :
          (ClickFlowTab(k) /\ FindFlow(Flows(yanaResult), Flows(yanaResult)[k].flow_slug) = k)
              => TabShowsItsFlow(k)]_vars

\* The second tab of the result with two flows and five screens was clicked.
C6_Witness ==
    /\ yanaResult = TwoFlowsFiveScreens
    /\ activeFlowSlug = "f2"
    /\ activeScreenId = "s3"
    /\ Len(ScreensForFlow(yanaResult, activeFlowSlug)) = 3

\* Replies that are a failure of the submission.
FailingReplies ==
    {reply \in Replies : reply.kind = "rejected" \/ ~reply.ok \/ ~reply.json.decoded}

\* The error string of a non-2xx response, "" when it carries none.
ErrorString(reply) ==
    IF /\ reply.kind = "response"
       /\ ~reply.ok
       /\ reply.json.decoded
       /\ reply.json.value # NullObj
       /\ "error" \in DOMAIN reply.json.value
    THEN reply.json.value.error
    ELSE ""

\* C7: a submission whose request fails in transport, gets a non-2xx response
\* or an undecodable body ends with status 'error' and a non-empty message,
\* which is the response's error string when there is one.
C7_FailureShowsMessage ==
    [][\A k \in 1..Len(inFlight), reply \in FailingReplies :
          FetchSettles(k, reply) =>
              /\ responseStatus' = "error"
              /\ errorMessage' \notin {Null, ""}
              /\ ErrorString(reply) # "" => errorMessage' = ErrorString(reply)]_vars

\* A non-2xx response without a usable error string was received.
C7_Witness ==
    /\ responseStatus = "error"
    /\ errorMessage = "Request failed with 500"
    /\ inFlight = <<>>

Statuses == {"not sent", "sent", "received", "error"}

C9_ResultOnlyOnSuccess ==
    [][/\ yanaResult' # yanaResult => (SettleStep /\ responseStatus' = "received")
       /\ (SettleStep /\ responseStatus' = "error") =>
              UNCHANGED <<yanaResult, activeFlowSlug, activeScreenId>>]_vars

\* C10: fetch() is called once per accepted submission, and only in a step in
\* which submitPrompt accepts the prompt.
C10_NoRetry ==
    /\ [](nRequests = nAccepted)
    /\ [](responseStatus = "error" => inFlight = <<>>)
    /\ [][nRequests' # nRequests =>
             /\ SubmitStep
             /\ Trim(prompt) # <<>>
             /\ nRequests' = nRequests + 1]_vars

\* A submission failed and the user submitted again, which failed too.
C10_Witness ==
    /\ responseStatus = "error"
    /\ nRequests = 2
    /\ nSubmits = 2
    /\ inFlight = <<>>
\* ------------------------------------------------------------------------
\* Requests of both prompt forms
\* ------------------------------------------------------------------------
\* The requests that have left either form and have not settled yet.
PendingRequests ==
    {inFlight[k] : k \in 1..Len(inFlight)}
        \cup {rootInFlight[k].request : k \in 1..Len(rootInFlight)}

\* The values of the header `name` of request r.
HeaderValues(r, name) == {h[2] : h \in {g \in r.headers : g[1] = name}}

\* The number a base64 character stands for.
Base64Index(c) == (CHOOSE i \in 1..64 : Base64Alphabet[i] = c) - 1

\* The bytes a base64 text stands for (RFC 4648, section 4).
RECURSIVE Base64Decode(_)
Base64Decode(text) ==
    IF Len(text) < 4 THEN <<>>
    ELSE LET c1 == Base64Index(text[1])
             c2 == Base64Index(text[2])
             first == <<c1 * 4 + (c2 \div 16)>>
             rest  == SubSeq(text, 5, Len(text))
         IN  IF text[3] = "=" THEN first
             ELSE LET c3 == Base64Index(text[3])
                      second == <<(c2 % 16) * 16 + (c3 \div 4)>>
                  IN  IF text[4] = "=" THEN first \o second
                      ELSE first \o second \o <<(c3 % 4) * 64 + Base64Index(text[4])>>
                               \o Base64Decode(rest)

Bytes(text) == [i \in 1..Len(text) |-> CharCode(text[i])]

CredentialsConfigured == Truthy(Username(env)) /\ Truthy(Password(env))

\* C11: a pending request of either form carries an Authorization header
\* exactly when both a non-empty username and a non-empty password are
\* configured; the header then has one value, "Basic " followed by a base64
\* text that decodes to the bytes of username ":" password.
C11_AuthorizationHeader ==
    \A r \in PendingRequests :
        IF CredentialsConfigured
        THEN \E v \in HeaderValues(r, "Authorization") :
                /\ HeaderValues(r, "Authorization") = {v}
                /\ Len(v) > Len(BasicPrefix)
                /\ SubSeq(v, 1, Len(BasicPrefix)) = BasicPrefix
                /\ Base64Decode(SubSeq(v, Len(BasicPrefix) + 1, Len(v)))
                       = Bytes(Username(env)) \o <<58>> \o Bytes(Password(env))
        ELSE HeaderValues(r, "Authorization") = {}

\* Both forms have a request pending in some run with credentials whose
\* base64 text is padded; here the one of the root page.
C11_Witness ==
    /\ CredentialsConfigured
    /\ Len(rootInFlight) = 1
    /\ \E v \in HeaderValues(rootInFlight[1].request, "Authorization") : v[Len(v)] = "="

\* ------------------------------------------------------------------------
\* Panels of the v1 page
\* ------------------------------------------------------------------------
\* The indices of the flows of the held result that list screen sid.
FlowsListing(sid) ==
    {i \in 1..Len(Flows(yanaResult)) :
        \E k \in 1..Len(Flows(yanaResult)[i].screens) : Flows(yanaResult)[i].screens[k] = sid}

\* C12: whenever the flow evaluation panel is shown for an active screen that
\* some flow lists, the flow it is mapped to is the first flow, in response
\* order, that lists the screen.
C12_FirstMatchWins ==
    EvaluationPanelShown(yanaResult, activeFlowSlug, activeScreenId) =>
        LET sid == ActiveScreen(yanaResult, activeFlowSlug, activeScreenId).screen_id
            listing == FlowsListing(sid)
        IN  listing # {} =>
                EvaluationFlowSlug(yanaResult, activeFlowSlug, activeScreenId)
                    = Flows(yanaResult)[CHOOSE i \in listing : \A j \in listing : i <= j].flow_slug

\* The positions, in the held result's vector_hits, of the hits of type FLOW or COMP.
QualifyingPositions ==
    {i \in 1..Len(yanaResult.retrieval.vector_hits) :
        yanaResult.retrieval.vector_hits[i].source_type \in {"FLOW", "COMP"}}

\* The n-th smallest element of a set of numbers.
NthSmallest(S, n) == CHOOSE j \in S : Cardinality({q \in S : q <= j}) = n

\* C13: whenever the similarity panel is shown it lists at most 8 hits, each
\* of type FLOW or COMP, and its n-th row is the n-th hit of those types in
\* the order of the response, for every n up to 8 or the number of such hits.
C13_TopEightOfListedTypes ==
    SimilarityPanelShown(yanaResult, activeFlowSlug, activeScreenId) =>
        LET rows == SimilarityHits(yanaResult)
            want == IF Cardinality(QualifyingPositions) < 8
                    THEN Cardinality(QualifyingPositions) ELSE 8
        IN  /\ Len(rows) <= 8
            /\ \A n \in 1..Len(rows) : rows[n].source_type \in {"FLOW", "COMP"}
            /\ Len(rows) = want
            /\ \A n \in 1..want :
                   rows[n] = yanaResult.retrieval.vector_hits[NthSmallest(QualifyingPositions, n)]

\* The panel is shown for a response with more than 8 hits of the listed
\* types and hits of other types among them.
C13_Witness ==
    /\ SimilarityPanelShown(yanaResult, activeFlowSlug, activeScreenId)
    /\ Cardinality(QualifyingPositions) > 8
    /\ Cardinality(QualifyingPositions) < Len(yanaResult.retrieval.vector_hits)
    /\ Len(SimilarityHits(yanaResult)) = 8

\* A 2xx response whose body decodes to `body`.
OkReply(body) == [kind |-> "response", ok |-> TRUE, status |-> 200, json |-> Decoded(body)]

\* C14: a submission answered with a body that lacks any of evaluation,
\* retrieval and debug ends with status 'received' and no message, and the
\* panel of every lacking field is left out of the page then and for as long
\* as that result is held.
C14_AbsentOptionalFieldsOmitted ==
    /\ [](\A field \in OptionalFields :
             (yanaResult # NullObj /\ field \notin DOMAIN yanaResult) =>
                 field \notin PanelsShown(yanaResult, activeFlowSlug, activeScreenId))
    /\ [][\A k \in 1..Len(inFlight), body \in ResultBodies :
             (/\ SettleStep
              /\ yanaResult' = body
              /\ OptionalFields \ DOMAIN body # {}
              /\ FetchSettles(k, OkReply(body))) =>
                 /\ responseStatus' = "received"
                 /\ errorMessage' = Null
                 /\ PanelsShown(yanaResult', activeFlowSlug', activeScreenId')
                        \subseteq OptionalFields \cap DOMAIN body]_vars

\* A result with screens and none of the optional fields is held and shown.
C14_Witness ==
    /\ yanaResult = SharedAndDangling
    /\ responseStatus = "received"
    /\ errorMessage = Null
    /\ ActiveScreen(yanaResult, activeFlowSlug, activeScreenId) # NullObj
    /\ PanelsShown(yanaResult, activeFlowSlug, activeScreenId) = {}

\* ------------------------------------------------------------------------
\* Root page
\* ------------------------------------------------------------------------
\* C19: a call of the root page's submitPrompt with an empty or
\* whitespace-only prompt hands no request to fetch().
C19_RootBlankSubmitSendsNothing ==
    [][(rootSubmits' = rootSubmits + 1 /\ Trim(rootPrompt) = <<>>) =>
          rootInFlight' = rootInFlight]_vars

\* C20: every request that has left a prompt form is a POST to
\* {API_HOST}/api/v1/search without a query string, whose body is {query: a
\* prompt text}.
C20_OnlyPostV1Search ==
    \A r \in PendingRequests :
        /\ r.method = "POST"
        /\ r.host = ApiHost(env)
        /\ r.path = "/api/v1/search"
        /\ r.search = <<>>
        /\ r.body # NullObj
        /\ r.body.query \in Texts

\* ------------------------------------------------------------------------
\* v1 page: selection
\* ------------------------------------------------------------------------
\* C21: when a submission is answered with a body that has at least one flow,
\* the active flow is then the first flow of the body and the active screen is
\* the first screen that flow lists (none when it lists none), whatever flow
\* and screen were selected before.
C21_SuccessSelectsFirstFlow ==
    [][\A k \in 1..Len(inFlight), body \in ResultBodies :
          (/\ SettleStep
           /\ yanaResult' = body
           /\ Flows(body) # <<>>
           /\ FetchSettles(k, OkReply(body))) =>
              /\ ActiveFlow(yanaResult', activeFlowSlug') = Flows(body)[1]
              /\ ActiveScreen(yanaResult', activeFlowSlug', activeScreenId')
                     = IF ListedScreens(Flows(body)[1], body) # <<>>
                       THEN ListedScreens(Flows(body)[1], body)[1]
                       ELSE NullObj]_vars

\* A second submission was answered with two flows; the first flow and its
\* first screen are selected.
C21_Witness ==
    /\ nRequests = 2
    /\ inFlight = <<>>
    /\ responseStatus = "received"
    /\ yanaResult = TwoFlowsFiveScreens
    /\ activeFlowSlug = "f1"
    /\ activeScreenId = "s1"

\* Sequence `part` follows the order of the identifiers `ids`: its screens
\* carry identifiers found at increasing positions of ids.
FollowsOrderOf(part, ids) ==
    \E at \in [1..Len(part) -> 1..Len(ids)] :
        /\ \A i \in 1..Len(part) : part[i].screen_id = ids[at[i]]
        /\ \A i, j \in 1..Len(part) : i < j => at[i] < at[j]

\* C22: while a result with flows is held, the rendered screen list is the
\* active flow's identifiers in their order, each replaced by the first
\* screen of the result carrying it and those carried by no screen dropped;
\* it is no longer than the flow's list of identifiers and keeps its order.
C22_ScreenListOfActiveFlow ==
    (yanaResult # NullObj /\ Flows(yanaResult) # <<>>) =>
        LET flow == ActiveFlow(yanaResult, activeFlowSlug)
            shown == ScreensForFlow(yanaResult, activeFlowSlug)
        IN  /\ shown = ListedScreens(flow, yanaResult)
            /\ Len(shown) <= Len(flow.screens)
            /\ FollowsOrderOf(shown, flow.screens)

\* The active flow lists an identifier no screen carries and one that two
\* screens carry; one screen is rendered.
C22_Witness ==
    /\ yanaResult = SharedAndDangling
    /\ activeFlowSlug = "f1"
    /\ ActiveFlow(yanaResult, activeFlowSlug).screens = <<"s9", "s1">>
    /\ ScreensForFlow(yanaResult, activeFlowSlug) = <<Screen("s1", "1")>>

\* C26: at most one request of the v1 form is pending, exactly while the
\* status is 'sent', and no step taken while the status is 'sent' sends
\* another; so every response is applied before the next request leaves.
C26_OneRequestInFlight ==
    /\ [](/\ Len(inFlight) <= 1
          /\ Len(inFlight) = 1 <=> responseStatus = "sent")
    /\ [][responseStatus = "sent" => nRequests' = nRequests]_vars

\* The second request of a visit is pending while the result of the first is held.
C26_Witness ==
    /\ nRequests = 2
    /\ Len(inFlight) = 1
    /\ responseStatus = "sent"
    /\ yanaResult # NullObj

\* C27: the error message is set exactly while the status is 'error', and a
\* call of submitPrompt that passes the blank check leaves the message null.
C27_MessageIffError ==
    /\ [](errorMessage # Null <=> responseStatus = "error")
    /\ [][nAccepted' = nAccepted + 1 => errorMessage' = Null]_vars

\* The first submission of a visit failed and the second has been sent.
C27_Witness ==
    /\ nRequests = 2
    /\ yanaResult = NullObj
    /\ responseStatus = "sent"
    /\ errorMessage = Null

\* C28: whenever the rendered screen list of the active flow is not empty,
\* the active screen is one of its screens.
C28_ActiveScreenInList ==
    LET shown == ScreensForFlow(yanaResult, activeFlowSlug)
    IN  shown # <<>> =>
            \E i \in 1..Len(shown) :
                shown[i] = ActiveScreen(yanaResult, activeFlowSlug, activeScreenId)

\* C29: whenever the evaluation panel shows the metrics of a row, the row is
\* the active flow's: its workflow_id is the flow's slug or its title the
\* flow's name.
C29_MetricsOfActiveFlow ==
    (/\ EvaluationPanelShown(yanaResult, activeFlowSlug, activeScreenId)
     /\ EvalRow(yanaResult, activeFlowSlug, activeScreenId) # NullObj) =>
        LET row == EvalRow(yanaResult, activeFlowSlug, activeScreenId)
            flow == ActiveFlow(yanaResult, activeFlowSlug)
        IN  /\ flow # NullObj
            /\ row.workflow_id = flow.flow_slug \/ row.workflow_title = flow.name

\* C30: whenever the held result carries retrieval hits and there is an
\* active screen, the similarity panel is part of the page.
C30_SimilarityPanelWithoutEvaluation ==
    (/\ yanaResult # NullObj
     /\ ActiveScreen(yanaResult, activeFlowSlug, activeScreenId) # NullObj
     /\ "retrieval" \in DOMAIN yanaResult
     /\ "vector_hits" \in DOMAIN yanaResult.retrieval) =>
        "retrieval" \in PanelsShown(yanaResult, activeFlowSlug, activeScreenId)

====
